---- MODULE Spec2Model ----
(***************************************************************************)
(* Streaming pipeline of real_selection (src/real_selection/main.py):      *)
(* processar_tts wires one AudioProducerThread and one AudioConsumerThread *)
(* around one queue.Queue(maxsize=10).  The engine (KPipeline) and the     *)
(* sink (PyAudio stream) are the environment: what they yield and where    *)
(* they raise is chosen nondeterministically at the call that reaches      *)
(* them.  A segment is identified by the index i that enumerate() gives    *)
(* its engine result (main.py:188).  Spec is one run of processar_tts;      *)
(* MainSpec is one call of main() around it (capture, cleaning, engine     *)
(* initialization, exit code) in a process that may receive SIGINT.        *)
(* ProcessSpec is calls of main() one after the other in one process;      *)
(* TextSpec applies the text functions to every text within the bound.     *)
(***************************************************************************)
EXTENDS Integers, Sequences, FiniteSets, TLC

\* ---------------------------------------------------------------- bounds
\* results the engine yields in one run, at most
MaxResults == 13
\* of which results with audio None, at most
MaxEmpty == 1

\* characters of a text handed to limpar_texto_para_tts, at most
MaxLen == 6

\* calls of inicializar_pipeline in one process, at most
MaxInitCalls == 2

\* ------------------------------------------------------ program constants
\* queue.Queue(maxsize=10)
maxsize == 10
\* the termination sentinel put into the queue (Python None)
None == 0 - 1
\* value of an unset erro slot (Python None)
NoErro == "None"

VARIABLES
    audio_queue,     \* contents of the queue.Queue, head first
    p_pc,            \* position of AudioProducerThread.run
    num_chunks,      \* producer.num_chunks
    p_erro,          \* producer.erro
    p_chunk,         \* the local `chunk` of the producer (its index i)
    engine_log,      \* results yielded so far: TRUE = result.audio not None
    engine_end,      \* "running", "exhausted" or "raised"
    put_log,         \* every item whose audio_queue.put has completed
    c_pc,            \* position of AudioConsumerThread.run
    chunks_tocados,  \* consumer.chunks_tocados
    c_erro,          \* consumer.erro
    c_chunk,         \* the local `chunk` of the consumer
    stream,          \* the local `stream`: "None", "open", "stopped", "closed"
    sink_fault,      \* what the sink raised on: "none", "open", "write"
    got_log,         \* every item audio_queue.get has returned
    written,         \* segments whose stream.write has completed
    main_pc,         \* position of processar_tts
    pa,              \* the PyAudio instance p: "None", "active", "terminated"
    retorno,         \* the value processar_tts returns
    convert_fault,   \* TRUE once the conversion at main.py:193 has raised
    erros_log,       \* the threads processar_tts has logged an error for
    texto_bruto,     \* main(): what obter_selecao_primaria returned
    texto_limpo,     \* main(): what limpar_texto_para_tts returned
    pipeline_global, \* _pipeline_global: "None" or "loaded"
    init_calls,      \* calls of inicializar_pipeline so far
    codigo_saida,    \* the value main() returned (None before)
    exit_status      \* the status the process exited with (None before)

vars == <<audio_queue, p_pc, num_chunks, p_erro, p_chunk, engine_log,
          engine_end, put_log, c_pc, chunks_tocados, c_erro, c_chunk, stream,
          sink_fault, got_log, written, main_pc, pa, retorno, convert_fault,
          erros_log, texto_bruto, texto_limpo, pipeline_global, init_calls,
          codigo_saida, exit_status>>

producer_vars == <<p_pc, num_chunks, p_erro, p_chunk, engine_log, engine_end,
                   convert_fault>>
consumer_vars == <<c_pc, chunks_tocados, c_erro, c_chunk, stream, sink_fault,
                   got_log, written>>
\* the locals and globals of main() and the exit status of the process
proc_vars == <<texto_bruto, texto_limpo, pipeline_global, init_calls,
               codigo_saida, exit_status>>
main_vars == <<main_pc, pa, retorno, erros_log, proc_vars>>

\* ---------------------------------------------------------------- helpers
\* number of results with audio None yielded so far
RECURSIVE CountEmpty(_)
CountEmpty(log) ==
    IF log = <<>> THEN 0
    ELSE (IF Head(log) THEN 0 ELSE 1) + CountEmpty(Tail(log))

\* as not_full, but the bound is tested off by one
not_full_off_by_one(q) == Len(q) <= maxsize

\* queue.Queue.put(block=True) waits while the queue holds maxsize items
not_full(q) == Len(q) < maxsize

\* queue.Queue.get(block=True) waits while the queue is empty
not_empty(q) == Len(q) > 0

\* queue.Queue is FIFO: put appends at the tail
queue_put(q, item) == Append(q, item)

\* queue.Queue is FIFO: get takes from the head
queue_get_item(q) == Head(q)

queue_get_rest(q) == Tail(q)

\* ------------------------------------------------------------ text capture
\* Optional[str]: None is the empty tuple, a string s (a sequence of
\* characters) is the one-element tuple <<s>>
NoneStr == <<>>
Some(s) == <<s>>

\* the whitespace str.strip() removes, within the alphabet used here
IsSpace(c) == c \in {" ", "\t", "\n"}

RECURSIVE lstrip(_)
lstrip(s) == IF s # <<>> /\ IsSpace(Head(s)) THEN lstrip(Tail(s)) ELSE s

RECURSIVE rstrip(_)
rstrip(s) ==
    IF s # <<>> /\ IsSpace(s[Len(s)]) THEN rstrip(SubSeq(s, 1, Len(s) - 1)) ELSE s

\* str.strip()
strip(s) == rstrip(lstrip(s))

\* as SubSingleNewlines, but every newline becomes a space
SubSingleNewlines_all(s) ==
    [k \in 1..Len(s) |-> IF s[k] = "\n" THEN " " ELSE s[k]]

\* re.sub(r'(?<!\n)\n(?!\n)', ' ', texto): a newline with no newline
\* before it and none after it becomes a space
SubSingleNewlines(s) ==
    [k \in 1..Len(s) |->
        IF /\ s[k] = "\n"
           /\ (k = 1 \/ s[k - 1] # "\n")
           /\ (k = Len(s) \/ s[k + 1] # "\n")
        THEN " "
        ELSE s[k]]

RECURSIVE DropBlanks(_)
DropBlanks(s) ==
    IF s # <<>> /\ Head(s) \in {" ", "\t"} THEN DropBlanks(Tail(s)) ELSE s

\* re.sub(r'[ \t]+', ' ', texto_limpo): every run of spaces and tabs
\* becomes one space
RECURSIVE CollapseBlanks(_)
CollapseBlanks(s) ==
    IF s = <<>> THEN <<>>
    ELSE IF Head(s) \in {" ", "\t"}
         THEN <<" ">> \o CollapseBlanks(DropBlanks(Tail(s)))
         ELSE <<Head(s)>> \o CollapseBlanks(Tail(s))

RECURSIVE DropSpaces(_)
DropSpaces(s) ==
    IF s # <<>> /\ IsSpace(Head(s)) THEN DropSpaces(Tail(s)) ELSE s

\* re.sub(r'\s+', ' ', texto_limpo) of clipboard.py: every run of
\* whitespace, newlines included, becomes one space
RECURSIVE CollapseWhitespace(_)
CollapseWhitespace(s) ==
    IF s = <<>> THEN <<>>
    ELSE IF IsSpace(Head(s))
         THEN <<" ">> \o CollapseWhitespace(DropSpaces(Tail(s)))
         ELSE <<Head(s)>> \o CollapseWhitespace(Tail(s))

\* as limpar_texto_para_tts, but the second step collapses every run of
\* whitespace, newlines included
limpar_texto_para_tts_collapses_newlines(texto) ==
    IF texto = <<>> THEN NoneStr
    ELSE LET texto_limpo_ == strip(CollapseWhitespace(SubSingleNewlines(texto)))
         IN  IF texto_limpo_ = <<>> THEN NoneStr ELSE Some(texto_limpo_)

\* as limpar_texto_para_tts, but the blanks are collapsed before the single
\* newlines are replaced
limpar_texto_para_tts_swapped(texto) ==
    IF texto = <<>> THEN NoneStr
    ELSE LET texto_limpo_ == strip(SubSingleNewlines(CollapseBlanks(texto)))
         IN  IF texto_limpo_ = <<>> THEN NoneStr ELSE Some(texto_limpo_)

\* as limpar_texto_para_tts, but without the final strip()
limpar_texto_para_tts_no_strip(texto) ==
    IF texto = <<>> THEN NoneStr
    ELSE LET texto_limpo_ == CollapseBlanks(SubSingleNewlines(texto))
         IN  IF texto_limpo_ = <<>> THEN NoneStr ELSE Some(texto_limpo_)

\* as limpar_texto_para_tts, but the cleaned text is returned as it is,
\* also when it is empty
limpar_texto_para_tts_returns_empty(texto) ==
    IF texto = <<>> THEN NoneStr
    ELSE Some(strip(CollapseBlanks(SubSingleNewlines(texto))))

\* limpar_texto_para_tts of main.py
limpar_texto_para_tts(texto) ==
    IF texto = <<>> THEN NoneStr
    ELSE LET texto_limpo_ == strip(CollapseBlanks(SubSingleNewlines(texto)))
         IN  IF texto_limpo_ = <<>> THEN NoneStr ELSE Some(texto_limpo_)

\* limpar_texto_para_tts of tests/test_selection.py
test_selection_limpar_texto_para_tts(texto) ==
    IF texto = <<>> THEN NoneStr
    ELSE LET texto_limpo_ == strip(CollapseBlanks(SubSingleNewlines(texto)))
         IN  IF texto_limpo_ = <<>> THEN NoneStr ELSE Some(texto_limpo_)

\* limpar_texto_para_tts of clipboard.py
clipboard_limpar_texto_para_tts(texto) ==
    IF texto = <<>> THEN NoneStr
    ELSE Some(strip(CollapseWhitespace(SubSingleNewlines(texto))))

\* the characters of the texts: letters, space, tab, newline
Chars == {"a", "b", " ", "\t", "\n"}

\* the texts handed to limpar_texto_para_tts
Textos == UNION { [1..n -> Chars] : n \in 0..MaxLen }

\* the argument as limpar_texto_para_tts tests it: None and "" both take
\* the `if not texto` branch
TextoArg(opt) == IF opt = NoneStr THEN <<>> ELSE opt[1]

\* what `wl-paste --primary` writes when it succeeds
WlPasteOutputs ==
    { <<>>, <<" ", "\n">>, <<"a">>, <<" ", "a", "\n">>, <<"a", "\n", "b">> }

\* the ways the subprocess call ends
WlPasteOutcomes ==
    { [kind |-> k, out |-> <<>>] :
        k \in {"FileNotFoundError", "TimeoutExpired", "CalledProcessError", "Exception"} }
    \cup { [kind |-> "ok", out |-> o] : o \in WlPasteOutputs }

\* obter_selecao_primaria of main.py
obter_selecao_primaria(outcome) ==
    IF outcome.kind = "ok" THEN Some(strip(outcome.out))
    ELSE IF outcome.kind = "CalledProcessError" THEN Some(<<>>)
    ELSE NoneStr

\* ------------------------------------------------------------------- Init
\* the queue, the PyAudio instance and the two thread objects as
\* processar_tts constructs them (main.py:344-358)
FreshRun ==
    /\ audio_queue = <<>>
    /\ p_pc = "unstarted"
    /\ num_chunks = 0
    /\ p_erro = NoErro
    /\ c_pc = "unstarted"
    /\ chunks_tocados = 0
    /\ c_erro = NoErro

\* the state of processar_tts after both thread objects are constructed
\* (main.py:344-358): empty queue, counters 0, erro slots None; main() has
\* captured and cleaned the text "a" and the engine is loaded
Init ==
    /\ audio_queue = <<>>
    /\ p_pc = "unstarted"
    /\ num_chunks = 0
    /\ p_erro = NoErro
    /\ p_chunk = None
    /\ engine_log = <<>>
    /\ engine_end = "running"
    /\ put_log = <<>>
    /\ c_pc = "unstarted"
    /\ chunks_tocados = 0
    /\ c_erro = NoErro
    /\ c_chunk = None
    /\ stream = "None"
    /\ sink_fault = "none"
    /\ got_log = <<>>
    /\ written = <<>>
    /\ main_pc = "start_consumer"
    /\ pa = "active"
    /\ retorno = FALSE
    /\ convert_fault = FALSE
    /\ erros_log = {}
    /\ texto_bruto = Some(<<"a">>)
    /\ texto_limpo = Some(<<"a">>)
    /\ pipeline_global = "loaded"
    /\ init_calls = 1
    /\ codigo_saida = None
    /\ exit_status = None

\* the state of main() after configurar_logging() and signal.signal(...)
\* (main.py:406-411): nothing captured, no engine, no run constructed
MainInit ==
    /\ FreshRun
    /\ p_chunk = None
    /\ engine_log = <<>>
    /\ engine_end = "running"
    /\ put_log = <<>>
    /\ c_chunk = None
    /\ stream = "None"
    /\ sink_fault = "none"
    /\ got_log = <<>>
    /\ written = <<>>
    /\ main_pc = "capture"
    /\ pa = "None"
    /\ retorno = FALSE
    /\ convert_fault = FALSE
    /\ erros_log = {}
    /\ texto_bruto = NoneStr
    /\ texto_limpo = NoneStr
    /\ pipeline_global = "None"
    /\ init_calls = 0
    /\ codigo_saida = None
    /\ exit_status = None

\* a call of limpar_texto_para_tts on its own, as the tests make it: a text
\* is given, nothing of a run exists
TextInit ==
    /\ FreshRun
    /\ p_chunk = None
    /\ engine_log = <<>>
    /\ engine_end = "running"
    /\ put_log = <<>>
    /\ c_chunk = None
    /\ stream = "None"
    /\ sink_fault = "none"
    /\ got_log = <<>>
    /\ written = <<>>
    /\ main_pc = "text"
    /\ pa = "None"
    /\ retorno = FALSE
    /\ convert_fault = FALSE
    /\ erros_log = {}
    /\ texto_bruto \in { Some(s) : s \in Textos }
    /\ texto_limpo = NoneStr
    /\ pipeline_global = "None"
    /\ init_calls = 0
    /\ codigo_saida = None
    /\ exit_status = None

\* ------------------------------------------------- AudioProducerThread.run
\* as ProducerNext, but num_chunks is incremented for every result, also
\* for one whose audio is None
ProducerNext_counts_empty ==
    /\ p_pc = "next"
    /\ \/ /\ Len(engine_log) < MaxResults
          /\ \E audio \in BOOLEAN :
                /\ audio \/ CountEmpty(engine_log) < MaxEmpty
                /\ engine_log' = Append(engine_log, audio)
                /\ num_chunks' = num_chunks + 1
                /\ IF audio
                   THEN /\ p_chunk' = Len(engine_log)
                        /\ p_pc' = "convert"
                   ELSE UNCHANGED <<p_chunk, p_pc>>
          /\ UNCHANGED <<engine_end, p_erro>>
       \/ /\ engine_end' = "exhausted"
          /\ p_pc' = "put_none"
          /\ UNCHANGED <<engine_log, num_chunks, p_chunk, p_erro>>
       \/ /\ engine_end' = "raised"
          /\ p_erro' = "EngineError"
          /\ p_pc' = "except_put"
          /\ UNCHANGED <<engine_log, num_chunks, p_chunk>>
    /\ UNCHANGED <<audio_queue, put_log, convert_fault>>
    /\ UNCHANGED consumer_vars
    /\ UNCHANGED main_vars

\* as ProducerNext, but the except clause does not record self.erro
ProducerNext_erro_lost ==
    /\ p_pc = "next"
    /\ \/ /\ Len(engine_log) < MaxResults
          /\ \E audio \in BOOLEAN :
                /\ audio \/ CountEmpty(engine_log) < MaxEmpty
                /\ engine_log' = Append(engine_log, audio)
                /\ IF audio
                   THEN /\ num_chunks' = num_chunks + 1
                        /\ p_chunk' = Len(engine_log)
                        /\ p_pc' = "convert"
                   ELSE UNCHANGED <<num_chunks, p_chunk, p_pc>>
          /\ UNCHANGED engine_end
       \/ /\ engine_end' = "exhausted"
          /\ p_pc' = "put_none"
          /\ UNCHANGED <<engine_log, num_chunks, p_chunk>>
       \/ /\ engine_end' = "raised"
          /\ p_pc' = "except_put"
          /\ UNCHANGED <<engine_log, num_chunks, p_chunk>>
    /\ UNCHANGED <<p_erro, audio_queue, put_log, convert_fault>>
    /\ UNCHANGED consumer_vars
    /\ UNCHANGED main_vars

\* for i, result in enumerate(self.pipeline(...)): one step of the iterator.
\* It yields a result (counted at once when its audio is not None), is
\* exhausted, or raises; a raise lands in the except clause, which records
\* self.erro before its put(None).
ProducerNext ==
    /\ p_pc = "next"
    /\ \/ /\ Len(engine_log) < MaxResults
          /\ \E audio \in BOOLEAN :
                /\ audio \/ CountEmpty(engine_log) < MaxEmpty
                /\ engine_log' = Append(engine_log, audio)
                /\ IF audio
                   THEN /\ num_chunks' = num_chunks + 1
                        /\ p_chunk' = Len(engine_log)
                        /\ p_pc' = "convert"
                   ELSE UNCHANGED <<num_chunks, p_chunk, p_pc>>
          /\ UNCHANGED <<engine_end, p_erro>>
       \/ /\ engine_end' = "exhausted"
          /\ p_pc' = "put_none"
          /\ UNCHANGED <<engine_log, num_chunks, p_chunk, p_erro>>
       \/ /\ engine_end' = "raised"
          /\ p_erro' = "EngineError"
          /\ p_pc' = "except_put"
          /\ UNCHANGED <<engine_log, num_chunks, p_chunk>>
    /\ UNCHANGED <<audio_queue, put_log, convert_fault>>
    /\ UNCHANGED consumer_vars
    /\ UNCHANGED main_vars

\* chunk = result.audio.cpu().numpy().astype(np.float32): the segment is
\* prepared for the queue after it was counted; the conversion may raise
ProducerConvert ==
    /\ p_pc = "convert"
    /\ \/ /\ p_pc' = "put"
          /\ UNCHANGED <<p_erro, convert_fault>>
       \/ /\ convert_fault' = TRUE
          /\ p_erro' = "ConvertError"
          /\ p_pc' = "except_put"
    /\ UNCHANGED <<audio_queue, put_log, num_chunks, p_chunk, engine_log, engine_end>>
    /\ UNCHANGED consumer_vars
    /\ UNCHANGED main_vars

\* as ProducerPut, but with put_nowait: a segment that finds the queue full
\* is dropped and the loop goes on
ProducerPut_nowait ==
    /\ p_pc = "put"
    /\ IF not_full(audio_queue)
       THEN /\ audio_queue' = queue_put(audio_queue, p_chunk)
            /\ put_log' = Append(put_log, p_chunk)
       ELSE UNCHANGED <<audio_queue, put_log>>
    /\ p_pc' = "next"
    /\ UNCHANGED <<num_chunks, p_erro, p_chunk, engine_log, engine_end, convert_fault>>
    /\ UNCHANGED consumer_vars
    /\ UNCHANGED main_vars

\* self.audio_queue.put(chunk): blocks while the queue is full
ProducerPut ==
    /\ p_pc = "put"
    /\ not_full(audio_queue)
    /\ audio_queue' = queue_put(audio_queue, p_chunk)
    /\ put_log' = Append(put_log, p_chunk)
    /\ p_pc' = "next"
    /\ UNCHANGED <<num_chunks, p_erro, p_chunk, engine_log, engine_end, convert_fault>>
    /\ UNCHANGED consumer_vars
    /\ UNCHANGED main_vars

\* as ProducerPutNone, but the sentinel is put a second time on the way out
\* (as a finally clause repeating the put would)
ProducerPutNone_twice ==
    /\ p_pc = "put_none"
    /\ Len(audio_queue) + 1 < maxsize
    /\ audio_queue' = queue_put(queue_put(audio_queue, None), None)
    /\ put_log' = Append(Append(put_log, None), None)
    /\ p_pc' = "done"
    /\ UNCHANGED <<num_chunks, p_erro, p_chunk, engine_log, engine_end, convert_fault>>
    /\ UNCHANGED consumer_vars
    /\ UNCHANGED main_vars

\* self.audio_queue.put(None) after the loop, then the thread ends
ProducerPutNone ==
    /\ p_pc = "put_none"
    /\ not_full(audio_queue)
    /\ audio_queue' = queue_put(audio_queue, None)
    /\ put_log' = Append(put_log, None)
    /\ p_pc' = "done"
    /\ UNCHANGED <<num_chunks, p_erro, p_chunk, engine_log, engine_end, convert_fault>>
    /\ UNCHANGED consumer_vars
    /\ UNCHANGED main_vars

\* as ProducerExcept, but the except clause puts no sentinel
ProducerExcept_no_sentinel ==
    /\ p_pc = "except_put"
    /\ p_pc' = "done"
    /\ UNCHANGED <<audio_queue, put_log>>
    /\ UNCHANGED <<num_chunks, p_erro, p_chunk, engine_log, engine_end, convert_fault>>
    /\ UNCHANGED consumer_vars
    /\ UNCHANGED main_vars

\* as ProducerExcept, but with put_nowait: a sentinel that finds the queue
\* full is dropped and the thread ends
ProducerExcept_nowait ==
    /\ p_pc = "except_put"
    /\ IF not_full(audio_queue)
       THEN /\ audio_queue' = queue_put(audio_queue, None)
            /\ put_log' = Append(put_log, None)
       ELSE UNCHANGED <<audio_queue, put_log>>
    /\ p_pc' = "done"
    /\ UNCHANGED <<num_chunks, p_erro, p_chunk, engine_log, engine_end, convert_fault>>
    /\ UNCHANGED consumer_vars
    /\ UNCHANGED main_vars

\* except Exception: ... self.audio_queue.put(None), then the thread ends
ProducerExcept ==
    /\ p_pc = "except_put"
    /\ not_full(audio_queue)
    /\ audio_queue' = queue_put(audio_queue, None)
    /\ put_log' = Append(put_log, None)
    /\ p_pc' = "done"
    /\ UNCHANGED <<num_chunks, p_erro, p_chunk, engine_log, engine_end, convert_fault>>
    /\ UNCHANGED consumer_vars
    /\ UNCHANGED main_vars

\* ------------------------------------------------- AudioConsumerThread.run
\* stream = self.pyaudio_instance.open(...): opens the sink or raises; a
\* raise is recorded in self.erro and leaves stream None
ConsumerOpen ==
    /\ c_pc = "open"
    /\ \/ /\ stream' = "open"
          /\ c_pc' = "get"
          /\ UNCHANGED <<c_erro, sink_fault>>
       \/ /\ sink_fault' = "open"
          /\ c_erro' = "OpenError"
          /\ c_pc' = "finally"
          /\ UNCHANGED stream
    /\ UNCHANGED <<audio_queue, put_log, chunks_tocados, c_chunk, got_log, written>>
    /\ UNCHANGED producer_vars
    /\ UNCHANGED main_vars

\* as ConsumerGet, but on a queue.LifoQueue: get takes the newest item
ConsumerGet_lifo ==
    /\ c_pc = "get"
    /\ not_empty(audio_queue)
    /\ c_chunk' = audio_queue[Len(audio_queue)]
    /\ audio_queue' = SubSeq(audio_queue, 1, Len(audio_queue) - 1)
    /\ got_log' = Append(got_log, c_chunk')
    /\ IF c_chunk' = None
       THEN /\ c_pc' = "finally"
            /\ UNCHANGED chunks_tocados
       ELSE /\ chunks_tocados' = chunks_tocados + 1
            /\ c_pc' = "write"
    /\ UNCHANGED <<put_log, c_erro, stream, sink_fault, written>>
    /\ UNCHANGED producer_vars
    /\ UNCHANGED main_vars

\* as ConsumerGet, but the item is counted before it is tested for None
ConsumerGet_counts_sentinel ==
    /\ c_pc = "get"
    /\ not_empty(audio_queue)
    /\ c_chunk' = queue_get_item(audio_queue)
    /\ audio_queue' = queue_get_rest(audio_queue)
    /\ got_log' = Append(got_log, c_chunk')
    /\ chunks_tocados' = chunks_tocados + 1
    /\ c_pc' = IF c_chunk' = None THEN "finally" ELSE "write"
    /\ UNCHANGED <<put_log, c_erro, stream, sink_fault, written>>
    /\ UNCHANGED producer_vars
    /\ UNCHANGED main_vars

\* chunk = self.audio_queue.get(): blocks while the queue is empty; None
\* breaks the loop, a segment is counted before it is written
ConsumerGet ==
    /\ c_pc = "get"
    /\ not_empty(audio_queue)
    /\ c_chunk' = queue_get_item(audio_queue)
    /\ audio_queue' = queue_get_rest(audio_queue)
    /\ got_log' = Append(got_log, c_chunk')
    /\ IF c_chunk' = None
       THEN /\ c_pc' = "finally"
            /\ UNCHANGED chunks_tocados
       ELSE /\ chunks_tocados' = chunks_tocados + 1
            /\ c_pc' = "write"
    /\ UNCHANGED <<put_log, c_erro, stream, sink_fault, written>>
    /\ UNCHANGED producer_vars
    /\ UNCHANGED main_vars

\* as ConsumerWrite, but a failed write is recorded and the loop goes on
\* with the next item
ConsumerWrite_resumes ==
    /\ c_pc = "write"
    /\ \/ /\ written' = Append(written, c_chunk)
          /\ UNCHANGED <<c_erro, sink_fault>>
       \/ /\ sink_fault' = "write"
          /\ c_erro' = "WriteError"
          /\ UNCHANGED written
    /\ c_pc' = "get"
    /\ UNCHANGED <<audio_queue, put_log, chunks_tocados, c_chunk, stream, got_log>>
    /\ UNCHANGED producer_vars
    /\ UNCHANGED main_vars

\* as ConsumerWrite, but the two threads share one error slot: the failed
\* write is recorded in the producer's erro
ConsumerWrite_shared_slot ==
    /\ c_pc = "write"
    /\ \/ /\ written' = Append(written, c_chunk)
          /\ c_pc' = "get"
          /\ UNCHANGED <<c_erro, p_erro, sink_fault>>
       \/ /\ sink_fault' = "write"
          /\ p_erro' = "WriteError"
          /\ c_pc' = "finally"
          /\ UNCHANGED <<written, c_erro>>
    /\ UNCHANGED <<audio_queue, put_log, chunks_tocados, c_chunk, stream, got_log>>
    /\ UNCHANGED <<p_pc, num_chunks, p_chunk, engine_log, engine_end, convert_fault>>
    /\ UNCHANGED main_vars

\* stream.write(chunk.tobytes()): writes the whole segment or raises; a
\* raise is recorded in self.erro and ends the loop
ConsumerWrite ==
    /\ c_pc = "write"
    /\ \/ /\ written' = Append(written, c_chunk)
          /\ c_pc' = "get"
          /\ UNCHANGED <<c_erro, sink_fault>>
       \/ /\ sink_fault' = "write"
          /\ c_erro' = "WriteError"
          /\ c_pc' = "finally"
          /\ UNCHANGED written
    /\ UNCHANGED <<audio_queue, put_log, chunks_tocados, c_chunk, stream, got_log>>
    /\ UNCHANGED producer_vars
    /\ UNCHANGED main_vars

\* finally: if stream: try: stop_stream(); close()  except: pass
\* stop_stream may raise (close is then skipped), close may raise
ConsumerFinally ==
    /\ c_pc = "finally"
    /\ IF stream = "open"
       THEN stream' \in {"closed", "open", "stopped"}
       ELSE UNCHANGED stream
    /\ c_pc' = "done"
    /\ UNCHANGED <<audio_queue, put_log, chunks_tocados, c_erro, c_chunk,
                   sink_fault, got_log, written>>
    /\ UNCHANGED producer_vars
    /\ UNCHANGED main_vars

\* ------------------------------------------------------------ processar_tts
\* consumer.start()
StartConsumer ==
    /\ main_pc = "start_consumer"
    /\ c_pc' = "open"
    /\ main_pc' = "sleep"
    /\ UNCHANGED <<audio_queue, put_log, pa, retorno, erros_log, chunks_tocados,
                   c_erro, c_chunk, stream, sink_fault, got_log, written>>
    /\ UNCHANGED proc_vars
    /\ UNCHANGED producer_vars

\* time.sleep(0.1): a delay, no synchronisation with the consumer
Sleep ==
    /\ main_pc = "sleep"
    /\ main_pc' = "start_producer"
    /\ UNCHANGED <<audio_queue, put_log, pa, retorno, erros_log>>
    /\ UNCHANGED proc_vars
    /\ UNCHANGED producer_vars
    /\ UNCHANGED consumer_vars

\* producer.start()
StartProducer ==
    /\ main_pc = "start_producer"
    /\ p_pc' = "next"
    /\ main_pc' = "join_producer"
    /\ UNCHANGED <<audio_queue, put_log, pa, retorno, erros_log, num_chunks,
                   p_erro, p_chunk, engine_log, engine_end, convert_fault>>
    /\ UNCHANGED proc_vars
    /\ UNCHANGED consumer_vars

\* as JoinProducer, but the join does not wait for the producer
JoinProducer_no_wait ==
    /\ main_pc = "join_producer"
    /\ main_pc' = "join_consumer"
    /\ UNCHANGED <<audio_queue, put_log, pa, retorno, erros_log>>
    /\ UNCHANGED proc_vars
    /\ UNCHANGED producer_vars
    /\ UNCHANGED consumer_vars

\* producer.join(): returns once the producer thread has ended
JoinProducer ==
    /\ main_pc = "join_producer"
    /\ p_pc = "done"
    /\ main_pc' = "join_consumer"
    /\ UNCHANGED <<audio_queue, put_log, pa, retorno, erros_log>>
    /\ UNCHANGED proc_vars
    /\ UNCHANGED producer_vars
    /\ UNCHANGED consumer_vars

\* as JoinConsumer, but the join does not wait for the consumer
JoinConsumer_no_wait ==
    /\ main_pc = "join_consumer"
    /\ main_pc' = "terminate"
    /\ UNCHANGED <<audio_queue, put_log, pa, retorno, erros_log>>
    /\ UNCHANGED proc_vars
    /\ UNCHANGED producer_vars
    /\ UNCHANGED consumer_vars

\* consumer.join(): returns once the consumer thread has ended
JoinConsumer ==
    /\ main_pc = "join_consumer"
    /\ c_pc = "done"
    /\ main_pc' = "terminate"
    /\ UNCHANGED <<audio_queue, put_log, pa, retorno, erros_log>>
    /\ UNCHANGED proc_vars
    /\ UNCHANGED producer_vars
    /\ UNCHANGED consumer_vars

\* p.terminate()
Terminate ==
    /\ main_pc = "terminate"
    /\ pa' = "terminated"
    /\ main_pc' = "evaluate"
    /\ UNCHANGED <<audio_queue, put_log, retorno, erros_log>>
    /\ UNCHANGED proc_vars
    /\ UNCHANGED producer_vars
    /\ UNCHANGED consumer_vars

\* as ErrosReportados, but with elif: the consumer's error is reported only
\* when the producer has none
ErrosReportados_elif(pe, ce) ==
    IF pe # NoErro THEN {"Producer"}
    ELSE IF ce # NoErro THEN {"Consumer"} ELSE {}

\* if producer.erro: logger.error("Producer: ...")
\* if consumer.erro: logger.error("Consumer: ...")
ErrosReportados(pe, ce) ==
    (IF pe # NoErro THEN {"Producer"} ELSE {})
    \cup (IF ce # NoErro THEN {"Consumer"} ELSE {})

\* as Evaluate, but a run without segments is not a success
\* (... == producer.num_chunks and producer.num_chunks > 0)
Evaluate_requires_chunks ==
    /\ main_pc = "evaluate"
    /\ retorno' = IF p_erro # NoErro \/ c_erro # NoErro
                  THEN FALSE
                  ELSE chunks_tocados = num_chunks /\ num_chunks > 0
    /\ erros_log' = IF p_erro # NoErro \/ c_erro # NoErro
                    THEN ErrosReportados(p_erro, c_erro)
                    ELSE {}
    /\ main_pc' = "returned"
    /\ UNCHANGED proc_vars
    /\ UNCHANGED <<audio_queue, put_log, pa>>
    /\ UNCHANGED producer_vars
    /\ UNCHANGED consumer_vars

\* as Evaluate, but the error slots are not looked at
Evaluate_counts_only ==
    /\ main_pc = "evaluate"
    /\ retorno' = (chunks_tocados = num_chunks)
    /\ erros_log' = {}
    /\ main_pc' = "returned"
    /\ UNCHANGED proc_vars
    /\ UNCHANGED <<audio_queue, put_log, pa>>
    /\ UNCHANGED producer_vars
    /\ UNCHANGED consumer_vars

\* if producer.erro or consumer.erro: return False
\* return consumer.chunks_tocados == producer.num_chunks
Evaluate ==
    /\ main_pc = "evaluate"
    /\ retorno' = IF p_erro # NoErro \/ c_erro # NoErro
                  THEN FALSE
                  ELSE chunks_tocados = num_chunks
    /\ erros_log' = IF p_erro # NoErro \/ c_erro # NoErro
                    THEN ErrosReportados(p_erro, c_erro)
                    ELSE {}
    /\ main_pc' = "returned"
    /\ UNCHANGED proc_vars
    /\ UNCHANGED <<audio_queue, put_log, pa>>
    /\ UNCHANGED producer_vars
    /\ UNCHANGED consumer_vars

\* ------------------------------------------------------------------- main
\* as MainCapture, but an empty selection is not returned on and falls
\* through to the synthesis
MainCapture_falls_through ==
    /\ main_pc = "capture"
    /\ \E outcome \in WlPasteOutcomes :
          /\ texto_bruto' = obter_selecao_primaria(outcome)
          /\ IF texto_bruto' = NoneStr
             THEN /\ codigo_saida' = 1
                  /\ main_pc' = "main_returned"
             ELSE /\ main_pc' = "init_pipeline"
                  /\ UNCHANGED codigo_saida
    /\ UNCHANGED <<texto_limpo, pipeline_global, init_calls, exit_status>>
    /\ UNCHANGED <<audio_queue, put_log, pa, retorno, erros_log>>
    /\ UNCHANGED producer_vars
    /\ UNCHANGED consumer_vars

\* as MainCapture, but a failed capture returns 0
MainCapture_failure_is_0 ==
    /\ main_pc = "capture"
    /\ \E outcome \in WlPasteOutcomes :
          /\ texto_bruto' = obter_selecao_primaria(outcome)
          /\ IF texto_bruto' = NoneStr \/ texto_bruto' = Some(<<>>)
             THEN /\ codigo_saida' = 0
                  /\ main_pc' = "main_returned"
             ELSE /\ main_pc' = "clean"
                  /\ UNCHANGED codigo_saida
    /\ UNCHANGED <<texto_limpo, pipeline_global, init_calls, exit_status>>
    /\ UNCHANGED <<audio_queue, put_log, pa, retorno, erros_log>>
    /\ UNCHANGED producer_vars
    /\ UNCHANGED consumer_vars

\* texto_bruto = obter_selecao_primaria(); None returns 1, the empty string
\* returns 0
MainCapture ==
    /\ main_pc = "capture"
    /\ \E outcome \in WlPasteOutcomes :
          /\ texto_bruto' = obter_selecao_primaria(outcome)
          /\ IF texto_bruto' = NoneStr
             THEN /\ codigo_saida' = 1
                  /\ main_pc' = "main_returned"
             ELSE IF texto_bruto' = Some(<<>>)
             THEN /\ codigo_saida' = 0
                  /\ main_pc' = "main_returned"
             ELSE /\ main_pc' = "clean"
                  /\ UNCHANGED codigo_saida
    /\ UNCHANGED <<texto_limpo, pipeline_global, init_calls, exit_status>>
    /\ UNCHANGED <<audio_queue, put_log, pa, retorno, erros_log>>
    /\ UNCHANGED producer_vars
    /\ UNCHANGED consumer_vars

\* texto_limpo = limpar_texto_para_tts(texto_bruto); empty returns 0
MainClean ==
    /\ main_pc = "clean"
    /\ texto_limpo' = limpar_texto_para_tts(texto_bruto[1])
    /\ IF texto_limpo' = NoneStr
       THEN /\ codigo_saida' = 0
            /\ main_pc' = "main_returned"
       ELSE /\ main_pc' = "init_pipeline"
            /\ UNCHANGED codigo_saida
    /\ UNCHANGED <<texto_bruto, pipeline_global, init_calls, exit_status>>
    /\ UNCHANGED <<audio_queue, put_log, pa, retorno, erros_log>>
    /\ UNCHANGED producer_vars
    /\ UNCHANGED consumer_vars

\* as MainInitPipeline, but inicializar_pipeline is called in every call
\* of main(), also when an engine is loaded
MainInitPipeline_every_call ==
    /\ main_pc = "init_pipeline"
    /\ init_calls' = init_calls + 1
    /\ \/ /\ pipeline_global' = "loaded"
          /\ main_pc' = "construct"
          /\ UNCHANGED codigo_saida
       \/ /\ pipeline_global' = "None"
          /\ codigo_saida' = 1
          /\ main_pc' = "main_returned"
    /\ UNCHANGED <<texto_bruto, texto_limpo, exit_status>>
    /\ UNCHANGED <<audio_queue, put_log, pa, retorno, erros_log>>
    /\ UNCHANGED producer_vars
    /\ UNCHANGED consumer_vars

\* if _pipeline_global is None: _pipeline_global = inicializar_pipeline(),
\* which returns the engine or, when KPipeline raises, None (return 1)
MainInitPipeline ==
    /\ main_pc = "init_pipeline"
    /\ IF pipeline_global = "None"
       THEN /\ init_calls' = init_calls + 1
            /\ \/ /\ pipeline_global' = "loaded"
                  /\ main_pc' = "construct"
                  /\ UNCHANGED codigo_saida
               \/ /\ pipeline_global' = "None"
                  /\ codigo_saida' = 1
                  /\ main_pc' = "main_returned"
       ELSE /\ main_pc' = "construct"
            /\ UNCHANGED <<pipeline_global, init_calls, codigo_saida>>
    /\ UNCHANGED <<texto_bruto, texto_limpo, exit_status>>
    /\ UNCHANGED <<audio_queue, put_log, pa, retorno, erros_log>>
    /\ UNCHANGED producer_vars
    /\ UNCHANGED consumer_vars

\* as Construct, but the queue of the earlier run is used again
Construct_reuses_queue ==
    /\ main_pc = "construct"
    /\ p_pc' = "unstarted"
    /\ num_chunks' = 0
    /\ p_erro' = NoErro
    /\ c_pc' = "unstarted"
    /\ chunks_tocados' = 0
    /\ c_erro' = NoErro
    /\ pa' = "active"
    /\ main_pc' = "start_consumer"
    /\ UNCHANGED <<audio_queue, p_chunk, engine_log, engine_end, convert_fault,
                   put_log, c_chunk, stream, sink_fault, got_log, written,
                   retorno, erros_log>>
    /\ UNCHANGED proc_vars

\* processar_tts up to its thread objects: a new queue, a new PyAudio
\* instance, a new producer and a new consumer
Construct ==
    /\ main_pc = "construct"
    /\ audio_queue' = <<>>
    /\ p_pc' = "unstarted"
    /\ num_chunks' = 0
    /\ p_erro' = NoErro
    /\ c_pc' = "unstarted"
    /\ chunks_tocados' = 0
    /\ c_erro' = NoErro
    /\ pa' = "active"
    /\ main_pc' = "start_consumer"
    /\ UNCHANGED <<p_chunk, engine_log, engine_end, convert_fault, put_log,
                   c_chunk, stream, sink_fault, got_log, written, retorno,
                   erros_log>>
    /\ UNCHANGED proc_vars

\* as MainReturn, but the result of processar_tts is not looked at
MainReturn_always_0 ==
    /\ main_pc = "returned"
    /\ codigo_saida' = 0
    /\ main_pc' = "main_returned"
    /\ UNCHANGED <<texto_bruto, texto_limpo, pipeline_global, init_calls, exit_status>>
    /\ UNCHANGED <<audio_queue, put_log, pa, retorno, erros_log>>
    /\ UNCHANGED producer_vars
    /\ UNCHANGED consumer_vars

\* sucesso = processar_tts(...); return 0 if sucesso else 1
MainReturn ==
    /\ main_pc = "returned"
    /\ codigo_saida' = IF retorno THEN 0 ELSE 1
    /\ main_pc' = "main_returned"
    /\ UNCHANGED <<texto_bruto, texto_limpo, pipeline_global, init_calls, exit_status>>
    /\ UNCHANGED <<audio_queue, put_log, pa, retorno, erros_log>>
    /\ UNCHANGED producer_vars
    /\ UNCHANGED consumer_vars

\* codigo_saida = main(); sys.exit(codigo_saida)
SysExit ==
    /\ main_pc = "main_returned"
    /\ exit_status' = codigo_saida
    /\ main_pc' = "exited"
    /\ UNCHANGED <<texto_bruto, texto_limpo, pipeline_global, init_calls, codigo_saida>>
    /\ UNCHANGED <<audio_queue, put_log, pa, retorno, erros_log>>
    /\ UNCHANGED producer_vars
    /\ UNCHANGED consumer_vars

\* SIGINT while the process runs: cleanup_handler calls sys.exit(130), which
\* raises SystemExit in the main thread and unwinds it out of main()
SigInt ==
    /\ main_pc \notin {"sigint", "exited"}
    /\ main_pc' = "sigint"
    /\ UNCHANGED proc_vars
    /\ UNCHANGED <<audio_queue, put_log, pa, retorno, erros_log>>
    /\ UNCHANGED producer_vars
    /\ UNCHANGED consumer_vars

\* the interpreter ends the process with the status of the SystemExit once
\* every thread created with daemon=False has ended
InterpreterShutdown ==
    /\ main_pc = "sigint"
    /\ p_pc \in {"unstarted", "done"}
    /\ c_pc \in {"unstarted", "done"}
    /\ exit_status' = 130
    /\ main_pc' = "exited"
    /\ UNCHANGED <<texto_bruto, texto_limpo, pipeline_global, init_calls, codigo_saida>>
    /\ UNCHANGED <<audio_queue, put_log, pa, retorno, erros_log>>
    /\ UNCHANGED producer_vars
    /\ UNCHANGED consumer_vars

\* main() is called again in the same process: its locals are new, the
\* locals of the ended threads and the record of what the engine and the
\* sink did are those of the call that begins; _pipeline_global is the
\* module's global and stays, the log stays, and the objects of the earlier
\* run stay as they were left until processar_tts makes new ones
MainAgain ==
    /\ main_pc = "main_returned"
    /\ init_calls <= MaxInitCalls
    /\ pipeline_global = "loaded" \/ init_calls < MaxInitCalls
    /\ main_pc' = "capture"
    /\ texto_bruto' = NoneStr
    /\ texto_limpo' = NoneStr
    /\ codigo_saida' = None
    /\ retorno' = FALSE
    /\ p_chunk' = None
    /\ c_chunk' = None
    /\ stream' = "None"
    /\ engine_log' = <<>>
    /\ engine_end' = "running"
    /\ convert_fault' = FALSE
    /\ sink_fault' = "none"
    /\ put_log' = <<>>
    /\ got_log' = <<>>
    /\ written' = <<>>
    /\ UNCHANGED <<audio_queue, p_pc, num_chunks, p_erro, c_pc, chunks_tocados,
                   c_erro, pa, erros_log, pipeline_global, init_calls,
                   exit_status>>

\* ------------------------------------------------------------------ texts
\* texto_limpo = limpar_texto_para_tts(texto) of main.py
TextLimpar ==
    /\ main_pc = "text"
    /\ texto_limpo' = limpar_texto_para_tts(TextoArg(texto_bruto))
    /\ main_pc' = "limpo"
    /\ UNCHANGED texto_bruto
    /\ UNCHANGED <<pipeline_global, init_calls, codigo_saida, exit_status>>
    /\ UNCHANGED <<audio_queue, put_log, pa, retorno, erros_log>>
    /\ UNCHANGED producer_vars
    /\ UNCHANGED consumer_vars

\* limpar_texto_para_tts of main.py applied to its own result
TextLimparAgain ==
    /\ main_pc = "limpo"
    /\ texto_bruto' = texto_limpo
    /\ texto_limpo' = limpar_texto_para_tts(TextoArg(texto_limpo))
    /\ main_pc' = "relimpo"
    /\ UNCHANGED <<pipeline_global, init_calls, codigo_saida, exit_status>>
    /\ UNCHANGED <<audio_queue, put_log, pa, retorno, erros_log>>
    /\ UNCHANGED producer_vars
    /\ UNCHANGED consumer_vars

\* texto_final = limpar_texto_para_tts(texto_bruto) of clipboard.py
TextLimparClipboard ==
    /\ main_pc = "text"
    /\ texto_limpo' = clipboard_limpar_texto_para_tts(TextoArg(texto_bruto))
    /\ main_pc' = "clipboard_limpo"
    /\ UNCHANGED texto_bruto
    /\ UNCHANGED <<pipeline_global, init_calls, codigo_saida, exit_status>>
    /\ UNCHANGED <<audio_queue, put_log, pa, retorno, erros_log>>
    /\ UNCHANGED producer_vars
    /\ UNCHANGED consumer_vars

\* ------------------------------------------------------------ specification
ProducerRun ==
    \/ ProducerNext
    \/ ProducerConvert
    \/ ProducerPut
    \/ ProducerPutNone
    \/ ProducerExcept

ConsumerRun ==
    \/ ConsumerOpen
    \/ ConsumerGet
    \/ ConsumerWrite
    \/ ConsumerFinally

ProcessarTts ==
    \/ StartConsumer
    \/ Sleep
    \/ StartProducer
    \/ JoinProducer
    \/ JoinConsumer
    \/ Terminate
    \/ Evaluate

Next ==
    \/ ProducerNext
    \/ ProducerConvert
    \/ ProducerPut
    \/ ProducerPutNone
    \/ ProducerExcept
    \/ ConsumerOpen
    \/ ConsumerGet
    \/ ConsumerWrite
    \/ ConsumerFinally
    \/ StartConsumer
    \/ Sleep
    \/ StartProducer
    \/ JoinProducer
    \/ JoinConsumer
    \/ Terminate
    \/ Evaluate

Spec == Init /\ [][Next]_vars

\* the three threads are operating-system threads: each one that can take a
\* step eventually takes one
FairSpec ==
    /\ Spec
    /\ WF_vars(ProducerRun)
    /\ WF_vars(ConsumerRun)
    /\ WF_vars(ProcessarTts)

\* one call of main() in a process that may receive SIGINT
MainNext ==
    \/ MainCapture
    \/ MainClean
    \/ MainInitPipeline
    \/ Construct
    \/ ProducerNext
    \/ ProducerConvert
    \/ ProducerPut
    \/ ProducerPutNone
    \/ ProducerExcept
    \/ ConsumerOpen
    \/ ConsumerGet
    \/ ConsumerWrite
    \/ ConsumerFinally
    \/ StartConsumer
    \/ Sleep
    \/ StartProducer
    \/ JoinProducer
    \/ JoinConsumer
    \/ Terminate
    \/ Evaluate
    \/ MainReturn
    \/ SysExit
    \/ SigInt
    \/ InterpreterShutdown

MainSpec == MainInit /\ [][MainNext]_vars

\* calls of main() one after the other in one process that is neither
\* interrupted nor left
ProcessNext ==
    \/ MainCapture
    \/ MainClean
    \/ MainInitPipeline
    \/ Construct
    \/ ProducerNext
    \/ ProducerConvert
    \/ ProducerPut
    \/ ProducerPutNone
    \/ ProducerExcept
    \/ ConsumerOpen
    \/ ConsumerGet
    \/ ConsumerWrite
    \/ ConsumerFinally
    \/ StartConsumer
    \/ Sleep
    \/ StartProducer
    \/ JoinProducer
    \/ JoinConsumer
    \/ Terminate
    \/ Evaluate
    \/ MainReturn
    \/ MainAgain

ProcessSpec == MainInit /\ [][ProcessNext]_vars

\* the text functions applied to every text within the bound
TextNext ==
    \/ TextLimpar
    \/ TextLimparAgain
    \/ TextLimparClipboard

TextSpec == TextInit /\ [][TextNext]_vars

\* ------------------------------------------------------- derived quantities
\* the segments of a sequence of queue items (everything but the sentinel)
RECURSIVE Segments(_)
Segments(items) ==
    IF items = <<>> THEN <<>>
    ELSE IF Head(items) = None THEN Segments(Tail(items))
         ELSE <<Head(items)>> \o Segments(Tail(items))

\* how many times the sentinel occurs in a sequence of queue items
RECURSIVE CountNone(_)
CountNone(items) ==
    IF items = <<>> THEN 0
    ELSE (IF Head(items) = None THEN 1 ELSE 0) + CountNone(Tail(items))

IsPrefix(s, t) ==
    /\ Len(s) <= Len(t)
    /\ \A k \in 1..Len(s) : s[k] = t[k]

NoDuplicates(s) == \A j, k \in 1..Len(s) : j # k => s[j] # s[k]

\* the enumerate() indices of the results whose audio is not None, in order
RECURSIVE NonEmptyResults(_)
NonEmptyResults(log) ==
    IF log = <<>> THEN <<>>
    ELSE IF log[Len(log)]
         THEN Append(NonEmptyResults(SubSeq(log, 1, Len(log) - 1)), Len(log) - 1)
         ELSE NonEmptyResults(SubSeq(log, 1, Len(log) - 1))

\* the producer is at one of its three audio_queue.put calls
ProducerAtPut == p_pc \in {"put", "put_none", "except_put"}

\* segments obtained from the engine whose write to the sink has not
\* completed: queued, held by the producer, or being written
InFlight ==
    Len(Segments(audio_queue))
    + (IF p_pc \in {"convert", "put"} THEN 1 ELSE 0)
    + (IF c_pc = "write" THEN 1 ELSE 0)

\* ------------------------------------------------------------------ claims

\* C1: in every reachable state the segments written to the sink, and the
\* items dequeued, are a prefix of what the producer has put, in the same
\* order, with no segment twice.
C1_FifoPrefix ==
    /\ IsPrefix(got_log, put_log)
    /\ IsPrefix(written, Segments(got_log))
    /\ IsPrefix(written, Segments(put_log))
    /\ NoDuplicates(written)

C1_Witness ==
    /\ Len(written) >= 3
    /\ Len(audio_queue) >= 2
    /\ p_pc = "put"
    /\ c_pc = "write"

\* C2: when the sink fails neither to open nor to write, under fair
\* scheduling the consumer eventually dequeues the sentinel, both threads end
\* and processar_tts returns, whether the engine is exhausted or raises.
C2_Completed ==
    /\ main_pc = "returned"
    /\ p_pc = "done"
    /\ c_pc = "done"
    /\ got_log # <<>>
    /\ got_log[Len(got_log)] = None

C2_Termination == <>(C2_Completed \/ sink_fault # "none")

C2_Witness ==
    /\ C2_Completed
    /\ engine_end = "raised"
    /\ sink_fault = "none"
    /\ engine_log = <<>>

\* C3: the producer puts the sentinel at most once, nothing after it, and
\* exactly once by the time it has ended, on the normal and on the
\* exception path.
C3_SentinelOnceLast ==
    /\ CountNone(put_log) <= 1
    /\ \A k \in 1..Len(put_log) : put_log[k] = None => k = Len(put_log)
    /\ \A k \in 1..Len(audio_queue) : audio_queue[k] = None => k = Len(audio_queue)
    /\ p_pc = "done" <=> CountNone(put_log) = 1

C3_Witness ==
    /\ p_pc = "done"
    /\ p_erro = "ConvertError"
    /\ Len(put_log) >= 3
    /\ put_log[Len(put_log)] = None

\* C4: a run that has returned with neither erro slot set has
\* chunks_tocados = num_chunks, so its comparison is never False.
C4_Conservation ==
    (main_pc = "returned" /\ p_erro = NoErro /\ c_erro = NoErro)
        => (chunks_tocados = num_chunks /\ retorno)

C4_Witness ==
    /\ main_pc = "returned"
    /\ p_erro = NoErro
    /\ c_erro = NoErro
    /\ num_chunks >= 3
    /\ CountEmpty(engine_log) >= 1

\* C5: once the consumer has ended with an error no slot of the queue is
\* ever freed, and when the producer is then at a put with no free slot
\* nothing moves again: the producer stays in put, processar_tts stays in
\* producer.join() and p.terminate() is not reached; processar_tts gets past
\* the join only when every item of the producer, sentinel included, fitted.
C5_Stalled ==
    /\ c_pc = "done"
    /\ c_erro # NoErro
    /\ ProducerAtPut
    /\ ~not_full(audio_queue)

C5_ConsumerFailed == c_pc = "done" /\ c_erro # NoErro

C5_PlaybackFailureStall ==
    /\ [](C5_Stalled => (main_pc = "join_producer" /\ pa = "active"))
    /\ [][~C5_Stalled]_vars
    /\ [][C5_ConsumerFailed => Len(audio_queue') >= Len(audio_queue)]_vars
    /\ []((C5_ConsumerFailed /\ main_pc \in {"terminate", "evaluate", "returned"})
            => (p_pc = "done" /\ CountNone(put_log) = 1))

C5_Witness ==
    /\ C5_Stalled
    /\ p_pc = "except_put"
    /\ sink_fault = "write"

\* C6: the queue never holds more than 10 items, the sentinel included.
C6_QueueBound == Len(audio_queue) <= maxsize

C6_Witness ==
    /\ Len(audio_queue) = maxsize
    /\ audio_queue[maxsize] = None

\* C7: while the queue holds 10 items the producer's put does not complete
\* and the producer obtains and counts nothing; the puts completed never
\* exceed the gets completed by more than 10.
C7_Backpressure ==
    /\ [](Len(put_log) <= Len(got_log) + maxsize)
    /\ [][(ProducerAtPut /\ Len(audio_queue) >= maxsize)
            => (/\ p_pc' = p_pc
                /\ put_log' = put_log
                /\ num_chunks' = num_chunks
                /\ engine_log' = engine_log)]_vars

C7_Witness ==
    /\ p_pc = "put"
    /\ Len(audio_queue) = maxsize
    /\ got_log = <<>>
    /\ Len(put_log) = maxsize

\* C8 (as claimed): at most 10 segments are in flight.
C8_InFlightAtMostMaxsize == InFlight <= maxsize

\* C8 (amended): at most 12 segments are in flight: 10 queued, the one the
\* producer holds and the one the consumer is writing.
C8_InFlightBound == InFlight <= maxsize + 2

C8_Witness ==
    /\ InFlight = maxsize + 2
    /\ p_pc = "put"
    /\ c_pc = "write"

\* C9: processar_tts returns True exactly when both erro slots are unset
\* and chunks_tocados = num_chunks.
C9_Reconciliation ==
    main_pc = "returned"
        => (retorno <=> (/\ p_erro = NoErro
                         /\ c_erro = NoErro
                         /\ chunks_tocados = num_chunks))

C9_Witness ==
    /\ main_pc = "returned"
    /\ ~retorno
    /\ p_erro = NoErro
    /\ c_erro # NoErro
    /\ chunks_tocados = num_chunks

\* C10: when the engine yields k non-empty segments and then raises, and
\* the sink is healthy, the run ends with producer.erro set, consumer.erro
\* unset, exactly those k segments written in order, the sentinel dequeued
\* last, chunks_tocados = num_chunks = k, and the result False.
C10_GenerationFailure ==
    (main_pc = "returned" /\ engine_end = "raised" /\ sink_fault = "none")
        => (/\ p_erro # NoErro
            /\ c_erro = NoErro
            /\ written = NonEmptyResults(engine_log)
            /\ got_log = Append(written, None)
            /\ chunks_tocados = Len(written)
            /\ num_chunks = Len(written)
            /\ ~retorno)

C10_Witness ==
    /\ main_pc = "returned"
    /\ engine_end = "raised"
    /\ sink_fault = "none"
    /\ Len(written) = 5
    /\ CountEmpty(engine_log) >= 1

\* C11 (as claimed): when the producer has ended, num_chunks is the number
\* of segments it has put into the queue.
C11_CountEqualsPut ==
    p_pc = "done" => num_chunks = Len(Segments(put_log))

\* C12 (as claimed): when the consumer has ended, chunks_tocados is the
\* number of segments whose write to the sink completed.
C12_CountEqualsWritten ==
    c_pc = "done" => chunks_tocados = Len(written)

\* C13 (as claimed): when the consumer has ended, a stream that was opened
\* has been closed; when the open failed, consumer.erro is set and nothing
\* was dequeued or written.
C13_ScopedSink ==
    /\ c_pc = "done" => stream \in {"None", "closed"}
    /\ sink_fault = "open"
         => (c_erro # NoErro /\ stream = "None" /\ got_log = <<>> /\ written = <<>>)

\* C14: p.terminate() has been called only when both threads have ended.
C14_TeardownOrdering ==
    pa = "terminated" => (p_pc = "done" /\ c_pc = "done")

C14_Witness ==
    /\ pa = "terminated"
    /\ main_pc = "evaluate"
    /\ Len(written) >= 2
    /\ stream = "closed"

\* C15 (as claimed): whenever a segment has been put into the queue, the
\* consumer's call of pyaudio open has completed.
C15_OpenBeforeFirstPut ==
    Segments(put_log) # <<>> => c_pc \notin {"unstarted", "open"}

\* C16 (as claimed): after cleanup_handler has run, no further segment is
\* generated, dequeued or written.
C16_InterruptStopsAudio ==
    [][main_pc = "sigint"
         => (engine_log' = engine_log /\ got_log' = got_log /\ written' = written)]_vars

\* C17: main() returns 0 exactly when the selection is empty, the cleaned
\* text is empty or processar_tts returned True, and 1 exactly when the
\* capture failed, the engine initialization failed or processar_tts
\* returned False; the process exits with 130 only through the handler.
C17_SelecaoVazia == texto_bruto = Some(<<>>)

C17_LimpoVazio ==
    /\ texto_bruto # NoneStr
    /\ texto_bruto # Some(<<>>)
    /\ texto_limpo = NoneStr

C17_InitFalhou == init_calls > 0 /\ pipeline_global = "None"

C17_ExitCodes ==
    /\ [](codigo_saida \in {None, 0, 1})
    /\ [](main_pc = "main_returned" => codigo_saida # None)
    /\ [](codigo_saida # None =>
            /\ codigo_saida = 0 <=>
                  (C17_SelecaoVazia \/ C17_LimpoVazio \/ (pa = "terminated" /\ retorno))
            /\ codigo_saida = 1 <=>
                  (texto_bruto = NoneStr \/ C17_InitFalhou \/ (pa = "terminated" /\ ~retorno)))
    /\ [][exit_status' # exit_status
            => (IF main_pc = "sigint"
                THEN exit_status' = 130
                ELSE exit_status' = codigo_saida /\ exit_status' \in {0, 1})]_vars

C17_Witness ==
    /\ main_pc = "exited"
    /\ exit_status = 1
    /\ pa = "terminated"
    /\ p_erro = NoErro
    /\ c_erro # NoErro

\* C18: when the selection is empty, or the text is empty after cleaning,
\* main() has returned 0 and inicializar_pipeline was never called, no
\* PyAudio instance or thread was created and nothing was ever queued.
C18_EmptyInputZeroWork ==
    (C17_SelecaoVazia \/ (codigo_saida # None /\ C17_LimpoVazio))
        => (/\ codigo_saida = 0
            /\ main_pc \in {"main_returned", "sigint", "exited"}
            /\ init_calls = 0
            /\ pipeline_global = "None"
            /\ pa = "None"
            /\ p_pc = "unstarted"
            /\ c_pc = "unstarted"
            /\ put_log = <<>>
            /\ stream = "None")

C18_Witness ==
    /\ C17_SelecaoVazia
    /\ main_pc = "exited"
    /\ exit_status = 0

\* C19: producer.erro is set exactly when the engine or the conversion has
\* raised, consumer.erro exactly when the sink has raised on open or write;
\* a slot that is set is never assigned again; and a run whose sink raised
\* nothing has played every segment that was put, producer failure or not.
C19_ErrorsLocal ==
    /\ [](p_erro # NoErro <=> (engine_end = "raised" \/ convert_fault))
    /\ [](c_erro # NoErro <=> sink_fault # "none")
    /\ []((main_pc = "returned" /\ sink_fault = "none")
            => (/\ p_pc = "done"
                /\ c_pc = "done"
                /\ audio_queue = <<>>
                /\ written = Segments(put_log)))
    /\ [][/\ p_erro # NoErro => p_erro' = p_erro
          /\ c_erro # NoErro => c_erro' = c_erro]_vars

C19_Witness ==
    /\ main_pc = "returned"
    /\ p_erro = "ConvertError"
    /\ c_erro = NoErro
    /\ Len(written) >= 2
    /\ written = Segments(put_log)

\* C20: a run that returns with an error slot set has reported a producer
\* error exactly when producer.erro is set and a consumer error exactly
\* when consumer.erro is set, and returns False.
C20_DistinctReport ==
    (main_pc = "returned" /\ (p_erro # NoErro \/ c_erro # NoErro))
        => (/\ "Producer" \in erros_log <=> p_erro # NoErro
            /\ "Consumer" \in erros_log <=> c_erro # NoErro
            /\ ~retorno)

C20_Witness ==
    /\ main_pc = "returned"
    /\ p_erro # NoErro
    /\ c_erro # NoErro
    /\ erros_log = {"Producer", "Consumer"}

\* C21 (as claimed): when the producer has ended, the segments it has put
\* are exactly the results with non-None audio, in engine order, and
\* num_chunks counts exactly those results.
C21_QueuedIsNonEmptyResults ==
    /\ num_chunks = Len(NonEmptyResults(engine_log))
    /\ IsPrefix(Segments(put_log), NonEmptyResults(engine_log))
    /\ p_pc = "done" => Segments(put_log) = NonEmptyResults(engine_log)

\* the sequence s without its last element
ButLast(s) == SubSeq(s, 1, Len(s) - 1)

\* C21 (amended): results with audio None are neither counted nor put; the
\* segments put are, in engine order, the results with non-None audio whose
\* conversion succeeded: all of them when the producer has ended, but for a
\* last one whose conversion raised.
C21_QueuedIsConvertedResults ==
    /\ num_chunks = Len(NonEmptyResults(engine_log))
    /\ IsPrefix(Segments(put_log), NonEmptyResults(engine_log))
    /\ Len(NonEmptyResults(engine_log)) - Len(Segments(put_log)) \in {0, 1}
    /\ p_pc \in {"next", "put_none"} => Segments(put_log) = NonEmptyResults(engine_log)
    /\ p_pc = "done" =>
          Segments(put_log) = IF convert_fault
                              THEN ButLast(NonEmptyResults(engine_log))
                              ELSE NonEmptyResults(engine_log)

C21_Witness ==
    /\ p_pc = "done"
    /\ convert_fault
    /\ CountEmpty(engine_log) = 1
    /\ Len(Segments(put_log)) >= 2

\* C22: once the consumer has dequeued the sentinel, or the sink has raised
\* on open or write, it dequeues and writes nothing more; the sentinel is
\* never written; and at every get all segments dequeued before are written.
C22_ConsumerStopped ==
    \/ sink_fault # "none"
    \/ (got_log # <<>> /\ got_log[Len(got_log)] = None)

C22_StopsForGood ==
    /\ [](\A k \in 1..Len(written) : written[k] # None)
    /\ [][C22_ConsumerStopped => (got_log' = got_log /\ written' = written)]_vars
    /\ [][got_log' # got_log => written = Segments(got_log)]_vars

C22_Witness ==
    /\ c_pc = "done"
    /\ sink_fault = "write"
    /\ Len(written) >= 2
    /\ Len(audio_queue) >= 2

\* C23: num_chunks and producer.erro change only in steps of the producer,
\* chunks_tocados and consumer.erro only in steps of the consumer, no step
\* changes state of both threads, and processar_tts evaluates the four
\* only when both threads have ended.
C23_PrivateState ==
    /\ [][/\ <<num_chunks, p_erro>>' # <<num_chunks, p_erro>>
               => (ProducerRun /\ UNCHANGED consumer_vars)
          /\ <<chunks_tocados, c_erro>>' # <<chunks_tocados, c_erro>>
               => (ConsumerRun /\ UNCHANGED producer_vars)
          /\ ~(producer_vars' # producer_vars /\ consumer_vars' # consumer_vars)]_vars
    /\ [](main_pc \in {"evaluate", "returned"} => (p_pc = "done" /\ c_pc = "done"))

C23_Witness ==
    /\ main_pc = "returned"
    /\ num_chunks >= 2
    /\ chunks_tocados >= 1
    /\ p_erro # NoErro
    /\ c_erro # NoErro

C25_Idempotent ==
    main_pc = "relimpo" => texto_limpo = texto_bruto

\* a first result with a paragraph break and a space has been cleaned again
C25_Witness ==
    /\ main_pc = "relimpo"
    /\ texto_bruto = Some(<<"a", " ", "b", "\n", "\n", "a">>)
    /\ texto_limpo = texto_bruto

\* ---------------------------------------------------------------- C26
Blank(c) == c \in {" ", "\t"}

\* C26: every non-None result of limpar_texto_para_tts has no newline without
\* a newline next to it, no tab, no two adjacent spaces or tabs, and no
\* whitespace at its beginning or its end.
C26_Normalized ==
    (main_pc = "limpo" /\ texto_limpo # NoneStr) =>
        LET t == texto_limpo[1]
            n == Len(t)
        IN  /\ \A k \in 1..n :
                   t[k] = "\n" =>
                       \/ (k > 1 /\ t[k - 1] = "\n")
                       \/ (k < n /\ t[k + 1] = "\n")
            /\ \A k \in 1..n : t[k] # "\t"
            /\ \A k \in 1..(n - 1) : ~(Blank(t[k]) /\ Blank(t[k + 1]))
            /\ n > 0 => (~IsSpace(t[1]) /\ ~IsSpace(t[n]))

\* a text with a leading space, a tab next to a lone newline, cleaned
C26_Witness ==
    /\ main_pc = "limpo"
    /\ texto_bruto = Some(<<" ", "a", "\t", "\n", "b", " ">>)
    /\ texto_limpo = Some(<<"a", " ", "b">>)

\* ---------------------------------------------------------------- C27
\* C27: limpar_texto_para_tts returns None exactly for the texts that are
\* empty or made of whitespace only, and never returns the empty string.
C27_NoneIffBlank ==
    main_pc = "limpo" =>
        LET s == TextoArg(texto_bruto)
        IN  /\ texto_limpo = NoneStr <=> (\A k \in 1..Len(s) : IsSpace(s[k]))
            /\ texto_limpo # Some(<<>>)

\* a non-empty text of whitespace only has been cleaned to None
C27_Witness ==
    /\ main_pc = "limpo"
    /\ texto_bruto = Some(<<" ", "\n", "\n", "\t">>)
    /\ texto_limpo = NoneStr

\* ---------------------------------------------------------------- C28
\* the number of newlines a text begins with
RECURSIVE LeadNewlines(_)
LeadNewlines(s) ==
    IF s # <<>> /\ Head(s) = "\n" THEN 1 + LeadNewlines(Tail(s)) ELSE 0

\* the lengths of the maximal runs of newlines of a text, in order
RECURSIVE NewlineRuns(_)
NewlineRuns(s) ==
    IF s = <<>> THEN <<>>
    ELSE IF Head(s) = "\n"
         THEN <<LeadNewlines(s)>>
                  \o NewlineRuns(SubSeq(s, LeadNewlines(s) + 1, Len(s)))
         ELSE NewlineRuns(Tail(s))

\* the runs of two newlines or more
ParagraphBreaks(s) == SelectSeq(NewlineRuns(s), LAMBDA n : n >= 2)

\* the number of non-whitespace characters a text begins with
RECURSIVE LeadWord(_)
LeadWord(s) ==
    IF s # <<>> /\ ~IsSpace(Head(s)) THEN 1 + LeadWord(Tail(s)) ELSE 0

\* the maximal runs of non-whitespace characters of a text, in order
RECURSIVE Words(_)
Words(s) ==
    IF s = <<>> THEN <<>>
    ELSE IF IsSpace(Head(s)) THEN Words(Tail(s))
         ELSE <<SubSeq(s, 1, LeadWord(s))>>
                  \o Words(SubSeq(s, LeadWord(s) + 1, Len(s)))

\* the words joined by one space
RECURSIVE JoinSpace(_)
JoinSpace(ws) ==
    IF ws = <<>> THEN <<>>
    ELSE IF Len(ws) = 1 THEN ws[1]
         ELSE ws[1] \o <<" ">> \o JoinSpace(Tail(ws))

\* C28 as stated: for any input with a result, the newline runs of the
\* result are the runs of two or more newlines of the input, each with its
\* length, the lone newlines being gone.
C28_EveryDoubleRunPreserved ==
    (main_pc = "limpo" /\ texto_limpo # NoneStr) =>
        NewlineRuns(TextoArg(texto_limpo))
            = ParagraphBreaks(TextoArg(texto_bruto))

\* C28, amended: the words of the text are kept in order, no lone newline is
\* left, a text without a paragraph break between its words comes out as its
\* words joined by single spaces, and the runs of two or more newlines that
\* stand between non-whitespace characters are kept with their lengths;
\* newline runs at the beginning or the end of the text are removed by the
\* final strip().
C28_InnerDoubleRunPreserved ==
    main_pc = "limpo" =>
        LET s == TextoArg(texto_bruto)
            t == TextoArg(texto_limpo)
        IN  /\ Words(t) = Words(s)
            /\ NewlineRuns(t) = ParagraphBreaks(strip(s))
            /\ ParagraphBreaks(strip(s)) = <<>> => t = JoinSpace(Words(s))

\* a text with a lone newline and a paragraph break between its words
C28_Witness ==
    /\ main_pc = "limpo"
    /\ texto_bruto = Some(<<"a", "\n", "b", "\n", "\n", "a">>)
    /\ texto_limpo = Some(<<"a", " ", "b", "\n", "\n", "a">>)

\* ---------------------------------------------------------------- C29
\* the number of maximal runs of spaces and tabs of a text
BlankRuns(s) ==
    Cardinality({ k \in 1..Len(s) :
                      Blank(s[k]) /\ (k = 1 \/ ~Blank(s[k - 1])) })

\* the characters of a text that are neither space nor tab, in order
NonBlanks(s) == SelectSeq(s, LAMBDA c : ~Blank(c))

\* every space or tab of the text is one space between two other characters
SingleSpaces(t) ==
    /\ \A k \in 1..Len(t) : t[k] # "\t"
    /\ \A k \in 1..(Len(t) - 1) : ~(Blank(t[k]) /\ Blank(t[k + 1]))

\* C29 as stated: for any input with a result, every maximal run of spaces
\* and tabs of the input is one space of the result, and the newlines of the
\* result are those the first step left, in their places among the other
\* characters.
C29_EveryBlankRunIsOneSpace ==
    (main_pc = "limpo" /\ texto_limpo # NoneStr) =>
        LET s == TextoArg(texto_bruto)
            t == TextoArg(texto_limpo)
        IN  /\ SingleSpaces(t)
            /\ BlankRuns(t) = BlankRuns(s)
            /\ NonBlanks(t) = NonBlanks(strip(SubSingleNewlines(s)))

\* C29, amended: the runs of spaces and tabs of the text as the first step
\* leaves it, trimmed, each become exactly one space (a run at the beginning
\* or the end of the text is removed by strip(), and runs joined by a
\* replaced lone newline are one run), and the other characters, newlines
\* included, are kept as they are, in their order.
C29_InnerBlankRunIsOneSpace ==
    main_pc = "limpo" =>
        LET s == TextoArg(texto_bruto)
            m == strip(SubSingleNewlines(s))
            t == TextoArg(texto_limpo)
        IN  /\ SingleSpaces(t)
            /\ BlankRuns(t) = BlankRuns(m)
            /\ NonBlanks(t) = NonBlanks(m)

\* a text with a run of a space and a tab, and a paragraph break
C29_Witness ==
    /\ main_pc = "limpo"
    /\ texto_bruto = Some(<<"a", " ", "\t", "\n", "\n", "b">>)
    /\ texto_limpo = Some(<<"a", " ", "\n", "\n", "b">>)

\* ---------------------------------------------------------------- C30
\* two newlines stand between two non-whitespace characters
HasParagraphBreak(s) ==
    \E k \in 1..(Len(s) - 3) :
        /\ ~IsSpace(s[k])
        /\ s[k + 1] = "\n"
        /\ s[k + 2] = "\n"
        /\ ~IsSpace(s[k + 3])

\* C30: limpar_texto_para_tts of clipboard.py keeps the double newline
\* between two paragraphs separated by a blank line.
C30_ClipboardKeepsParagraphs ==
    (main_pc = "clipboard_limpo" /\ HasParagraphBreak(TextoArg(texto_bruto)))
        => HasParagraphBreak(TextoArg(texto_limpo))

\* ---------------------------------------------------------------- C32
\* C32: processar_tts evaluates the outcome only after both threads have
\* ended: from p.terminate() on, the producer and the consumer are done.  The
\* producer's end alone does not imply it: there are states in which the
\* producer has ended, the queue still holds items and the consumer runs.
C32_EvaluatesAfterBothJoins ==
    main_pc \in {"terminate", "evaluate", "returned"} =>
        (p_pc = "done" /\ c_pc = "done")

\* the producer has ended and producer.join() has returned, segments and the
\* sentinel are still queued, and the consumer is writing
C32_Witness ==
    /\ p_pc = "done"
    /\ main_pc = "join_consumer"
    /\ c_pc = "write"
    /\ Len(audio_queue) >= 2
    /\ c_erro = NoErro

C36_ConsumerCountAtMostProducer ==
    chunks_tocados <= num_chunks

\* the consumer has caught up with the producer after several segments
C36_Witness ==
    /\ chunks_tocados = num_chunks
    /\ num_chunks >= 3
    /\ c_pc = "write"
    /\ p_pc = "next"

\* ---------------------------------------------------------------- C37
\* C37: when processar_tts has returned and consumer.erro is None, the queue
\* is empty, the consumer has taken every item the producer put, and the
\* sentinel was the last of them.
C37_NothingLeftBehind ==
    (main_pc = "returned" /\ c_erro = NoErro) =>
        /\ audio_queue = <<>>
        /\ got_log = put_log
        /\ got_log # <<>>
        /\ got_log[Len(got_log)] = None
        /\ CountNone(got_log) = 1

\* a run of several segments has returned without a consumer error
C37_Witness ==
    /\ main_pc = "returned"
    /\ c_erro = NoErro
    /\ Len(put_log) >= 4
    /\ audio_queue = <<>>

\* ---------------------------------------------------------------- C38
\* the error slot of the producer, as the engine's behaviour determines it
ErroDoMotor ==
    IF convert_fault THEN "ConvertError"
    ELSE IF engine_end = "raised" THEN "EngineError" ELSE NoErro

\* the segments the producer puts, as the engine's behaviour determines
\* them: the results with audio, less a last one whose conversion raised
SegmentosDoMotor ==
    IF convert_fault THEN ButLast(NonEmptyResults(engine_log))
    ELSE NonEmptyResults(engine_log)

\* C38: with a sink that does not fail, what a run ends with is a function of
\* the engine's behaviour alone (the results it yielded and where it raised,
\* if it did), whatever the interleaving was: the result of processar_tts,
\* num_chunks, chunks_tocados, both error slots and the sequence written.
C38_ScheduleIndependence ==
    (main_pc = "returned" /\ sink_fault = "none") =>
        /\ num_chunks = Len(NonEmptyResults(engine_log))
        /\ written = SegmentosDoMotor
        /\ chunks_tocados = Len(SegmentosDoMotor)
        /\ p_erro = ErroDoMotor
        /\ c_erro = NoErro
        /\ retorno = (ErroDoMotor = NoErro)
        /\ erros_log = (IF ErroDoMotor = NoErro THEN {} ELSE {"Producer"})

\* a run in which the engine raised after several results, one of them
\* without audio, has returned
C38_Witness ==
    /\ main_pc = "returned"
    /\ sink_fault = "none"
    /\ engine_end = "raised"
    /\ Len(written) >= 3
    /\ CountEmpty(engine_log) = 1

\* ---------------------------------------------------------------- C35
\* the text is the output without the whitespace at its two ends
IsStripOf(r, out) ==
    /\ r = <<>> \/ (~IsSpace(r[1]) /\ ~IsSpace(r[Len(r)]))
    /\ \E j \in 0..Len(out) :
          /\ \A k \in 1..j : IsSpace(out[k])
          /\ j + Len(r) <= Len(out)
          /\ \A k \in 1..Len(r) : out[j + k] = r[k]
          /\ \A k \in (j + Len(r) + 1)..Len(out) : IsSpace(out[k])

\* C35: obter_selecao_primaria returns a value for every way the wl-paste
\* call ends: None for a missing binary, a timeout or an unexpected
\* exception, the empty string for a non-zero exit, the stripped output on
\* success; main() returns 1 on None and 0 on the empty string, without
\* going on to the cleaning.
C35_CaptureOutcomes ==
    /\ \A o \in WlPasteOutcomes :
          LET r == obter_selecao_primaria(o)
          IN  /\ o.kind \in {"FileNotFoundError", "TimeoutExpired", "Exception"}
                    => r = NoneStr
              /\ o.kind = "CalledProcessError" => r = Some(<<>>)
              /\ o.kind = "ok" => (r # NoneStr /\ IsStripOf(r[1], o.out))
    /\ (main_pc # "capture" /\ codigo_saida # None /\ texto_bruto = NoneStr)
          => codigo_saida = 1
    /\ texto_bruto = NoneStr
          => main_pc \in {"capture", "main_returned", "sigint", "exited"}
    /\ texto_bruto = Some(<<>>)
          => (/\ codigo_saida = 0
              /\ main_pc \in {"main_returned", "sigint", "exited"})
    /\ (texto_bruto \in {NoneStr, Some(<<>>)}) =>
          (texto_limpo = NoneStr /\ init_calls = 0 /\ pa = "None")

\* the capture failed and the process has exited with 1
C35_Witness ==
    /\ main_pc = "exited"
    /\ texto_bruto = NoneStr
    /\ codigo_saida = 1
    /\ exit_status = 1

\* ---------------------------------------------------------------- C39
\* C39: for every text, limpar_texto_para_tts of clipboard.py returns what
\* the one of main.py returns, and so does the one of tests/test_selection.py.
C39_CopiesAgree ==
    /\ main_pc = "clipboard_limpo" =>
          texto_limpo = limpar_texto_para_tts(TextoArg(texto_bruto))
    /\ main_pc = "limpo" =>
          texto_limpo = test_selection_limpar_texto_para_tts(TextoArg(texto_bruto))

\* ---------------------------------------------------------------- C31
\* processar_tts is between its construction and its return
RunInProgress ==
    main_pc \in {"start_consumer", "sleep", "start_producer", "join_producer",
                 "join_consumer", "terminate", "evaluate", "returned"}

\* C31: every call of processar_tts begins with a new empty queue, a new
\* PyAudio instance and new thread objects, whatever the earlier run left;
\* in every run the queue holds exactly the items put in this run and not yet
\* taken, what is taken and played is what this run put, and what the run
\* returns with follows from what the engine and the sink did in this run.
C31_RunsIndependent ==
    /\ [][(main_pc = "construct" /\ main_pc' = "start_consumer") =>
             /\ audio_queue' = <<>>
             /\ pa' = "active"
             /\ p_pc' = "unstarted" /\ c_pc' = "unstarted"
             /\ num_chunks' = 0 /\ chunks_tocados' = 0
             /\ p_erro' = NoErro /\ c_erro' = NoErro
             /\ put_log' = <<>> /\ got_log' = <<>> /\ written' = <<>>]_vars
    /\ [](RunInProgress =>
             /\ IsPrefix(got_log, put_log)
             /\ audio_queue = SubSeq(put_log, Len(got_log) + 1, Len(put_log))
             /\ IsPrefix(written, Segments(got_log)))
    /\ [](main_pc = "returned" =>
             /\ p_erro = ErroDoMotor
             /\ c_erro # NoErro <=> sink_fault # "none"
             /\ num_chunks = Len(NonEmptyResults(engine_log))
             /\ chunks_tocados = Len(Segments(got_log))
             /\ retorno = (p_erro = NoErro /\ c_erro = NoErro))

\* an earlier run was logged with a consumer error, so that its queue kept
\* at least the sentinel; the run after it has played its own segments and
\* is about to return without an error
C31_Witness ==
    /\ main_pc = "evaluate"
    /\ erros_log = {"Consumer"}
    /\ p_erro = NoErro
    /\ c_erro = NoErro
    /\ Len(written) >= 2
    /\ audio_queue = <<>>

\* ---------------------------------------------------------------- C34
\* C34: over the calls of main() in one process, inicializar_pipeline is
\* called only while _pipeline_global is None; a loaded engine stays and is
\* never initialized again; a failed initialization leaves _pipeline_global
\* None and makes main() return 1 without a run; and between the
\* construction and the return of processar_tts neither _pipeline_global nor
\* the number of initializations changes.
C34_EngineReuse ==
    /\ [][init_calls' # init_calls =>
             (pipeline_global = "None" /\ init_calls' = init_calls + 1)]_vars
    /\ [][pipeline_global = "loaded" =>
             (pipeline_global' = "loaded" /\ init_calls' = init_calls)]_vars
    /\ [][(init_calls' # init_calls /\ pipeline_global' = "None") =>
             (/\ main_pc' = "main_returned"
              /\ codigo_saida' = 1
              /\ UNCHANGED <<pa, p_pc, c_pc, audio_queue>>)]_vars
    /\ [][(main_pc = "construct" \/ RunInProgress) =>
             UNCHANGED <<pipeline_global, init_calls>>]_vars
    /\ [](RunInProgress => pipeline_global = "loaded")

\* the engine was loaded once, a run with it was logged with an error, and a
\* later call of main() is in its run with the same engine
C34_Witness ==
    /\ main_pc = "evaluate"
    /\ init_calls = 1
    /\ pipeline_global = "loaded"
    /\ erros_log # {}
    /\ p_erro = NoErro
    /\ c_erro = NoErro

====
